---- MODULE Spec2Model ----
(***************************************************************************)
(* A model of klogproc's tail worklog (load/tail/worklog.go): the map      *)
(* file path -> LogRange, the request reader that reconciles update        *)
(* requests into it, the operations UpdateFileInfo, ResetFile and GetData, *)
(* Init and save() with the store file and its backup, and Close.          *)
(*                                                                         *)
(* w.updRequests is an unbuffered channel: a send completes at the very    *)
(* moment the request reader receives the request. In Spec, SpecTrace,     *)
(* SpecTail and SpecStore an operation that sends is one step together     *)
(* with the reader's loop iteration that receives and reconciles the       *)
(* request; SpecLife separates the receive from the reconciliation and     *)
(* lets the goroutines interleave.                                         *)
(***************************************************************************)
EXTENDS Integers, Sequences, FiniteSets, TLC

VARIABLES
    rec,    \* w.rec: a map, i.e. a function whose domain is the set of stored paths
    hist,   \* history: per path the value loaded at start or the candidate accepted last
    last,   \* history: the operation executed last, what it read and what it returned
    trace,  \* history: the requests the reader processed, in order (SpecTrace, SpecTail)
    storeFilePath,  \* w.storeFilePath
    initialized,    \* w.initialized
    updRequests,    \* w.updRequests: "nil", "open" or "closed"
    ctxDone,        \* the context passed to Init is cancelled
    files,          \* the store file (primary) and its backup
    main,           \* the goroutine that calls NewWorklog, Init and Close
    reader,         \* the goroutine started by goReadRequests
    savers,         \* the executions of save(): by the goroutine of goAutosave and by Close
    senders,        \* the goroutines calling UpdateFileInfo
    crashes,        \* history: how often the process was killed
    logBuffer,      \* tp.logBuffer with the BufferConf it was made from
    tp,             \* a tailProcessor with the channels of its check
    batch           \* a batch run: runBatchAction or the function of CreateLogFileProcFunc

\* the state of the worklog outside its map
proc == <<storeFilePath, initialized, updRequests, ctxDone, files, main, reader,
          savers, senders, crashes, logBuffer, tp, batch>>

vars == <<rec, hist, last, trace, proc>>

----------------------------------------------------------------------------
(* Bounds of the model *)

\* the times of the records of a log are 0..MaxTime
MaxTime == 2

\* BufferConf.AnalysisIntervalSecs is one of 1..MaxInterval
MaxInterval == 1

\* the number of records the log buffer retains for a key
MaxRecords == 2

\* the lines a file gains between two checks
MaxLines == 2

\* PushChunkSize of the configuration
ElasticChunkSize == 1

\* the buffer of itemConfirm
ItemConfirmSize == 10

\* PushChunkSize of the InfluxDB configuration
InfluxChunkSize == 1

\* the output records of a batch run
MaxItems == 3

\* the files of a source and the destination channels of a batch run
MaxFiles == 4

MaxChans == 2

\* the items of a line: unquoted ones, then any
MaxPlain == 11

MaxSuffix == 3

MaxInode == 1

MaxSeek == 1

MaxPos == 3

MaxTrace == 3

----------------------------------------------------------------------------
(* Data *)

Paths == {"/var/log/a.log", "/var/log/b.log"}

Inodes == 0..MaxInode

LogRange(seeks) ==
    { [Inode |-> i, SeekStart |-> s, SeekEnd |-> e, Written |-> wr] :
        i \in Inodes, s \in seeks, e \in seeks, wr \in BOOLEAN }

\* the ranges used as inputs satisfy SeekStart <= SeekEnd
LogRanges == { v \in LogRange(0..MaxSeek) : v.SeekStart <= v.SeekEnd }

\* Go's zero value of servicelog.LogRange
ZeroLogRange == [Inode |-> 0, SeekStart |-> 0, SeekEnd |-> 0, Written |-> FALSE]

\* the value GetData returns for a path the map does not hold
UnknownLogRange == [Inode |-> -1, SeekStart |-> 0, SeekEnd |-> 0, Written |-> FALSE]

updateRequest(filePath, value) == [FilePath |-> filePath, Value |-> value]

\* ConcurrentMap.GetWithTest: the second result
Has(m, k) == k \in DOMAIN m

\* ConcurrentMap.Get: the zero value for a key the map does not hold
Get(m, k) == IF k \in DOMAIN m THEN m[k] ELSE ZeroLogRange

\* Set as it would be if the stored range were continued from the end of the old one
SetContinued(m, k, v) ==
    [x \in DOMAIN m \cup {k} |->
        IF x = k THEN [v EXCEPT !.SeekStart = Get(m, k).SeekEnd] ELSE m[x]]

\* ConcurrentMap.Set
\* a Set that replaces the whole map by the one entry
SetAlone(m, k, v) == [x \in {k} |-> v]

Set(m, k, v) == [x \in DOMAIN m \cup {k} |-> IF x = k THEN v ELSE m[x]]

EmptyMap == [x \in {} |-> ZeroLogRange]

\* every map a store file can hold (over the model's paths and ranges)
StoredMaps ==
    UNION { [D -> LogRanges] : D \in SUBSET Paths }

----------------------------------------------------------------------------
(* The store file and its backup *)

StoreFile == "/var/lib/klogproc/tail/worklog.json"

\* every key a map can hold, in the order in which a serialisation lists them;
\* the empty path is the FilePath of Go's zero updateRequest
PathSeq == <<"", "/var/log/a.log", "/var/log/b.log">>

NoFile == [exists |-> FALSE, data |-> <<>>]

File(data) == [exists |-> TRUE, data |-> data]

Brace(t) == [tok |-> t, key |-> "", inode |-> 0, seekStart |-> 0, seekEnd |-> 0,
             written |-> FALSE]

\* one entry of the JSON object: the path and the four fields of its LogRange
Entry(k, v) == [tok |-> "entry", key |-> k, inode |-> v.Inode,
                seekStart |-> v.SeekStart, seekEnd |-> v.SeekEnd, written |-> v.Written]

\* json.Marshal(w.rec): the tokens of the JSON object
Marshal(m) ==
    LET InMap(k) == k \in DOMAIN m
        keys == SelectSeq(PathSeq, InMap)
    IN  <<Brace("{")>> \o [i \in 1..Len(keys) |-> Entry(keys[i], m[keys[i]])]
                       \o <<Brace("}")>>

\* the data is one complete JSON object
IsJSON(data) ==
    /\ Len(data) >= 2
    /\ data[1] = Brace("{")
    /\ data[Len(data)] = Brace("}")
    /\ \A i \in 2..(Len(data) - 1) : data[i].tok = "entry"

\* NewConcurrentMapFromJSON on data that is a complete JSON object
Unmarshal(data) ==
    LET idx == 2..(Len(data) - 1)
        At(k) == CHOOSE i \in idx :
                    /\ data[i].key = k
                    /\ \A j \in idx : data[j].key = k => j <= i
    IN  [k \in { data[i].key : i \in idx } |->
            [Inode |-> data[At(k)].inode, SeekStart |-> data[At(k)].seekStart,
             SeekEnd |-> data[At(k)].seekEnd, Written |-> data[At(k)].written]]

\* what a write or copy of data leaves behind when it is cut short
Prefixes(data) == { SubSeq(data, 1, n) : n \in 0..(Len(data) - 1) }

\* the file holds a complete serialisation of a ledger generation
Complete(f) == f.exists /\ IsJSON(f.data)

----------------------------------------------------------------------------
(* The log buffer of a tail processor *)

\* rec.ClusteringClientID()
Keys == {"client1", "client2"}

\* Go's zero time.Time, so far back that the time since exceeds every interval
ZeroTime == 0 - (MaxInterval + 1)

InputRecord(key, time, clusterSize) ==
    [key |-> key, time |-> time, clusterSize |-> clusterSize]

\* a buffer made for a BufferConf with the given AnalysisIntervalSecs
NewStorage(interval) ==
    [interval |-> interval, recs |-> [k \in Keys |-> <<>>],
     lastCheck |-> [k \in Keys |-> ZeroTime]]

GetLastCheck(b, key) == b.lastCheck[key]

\* the retained records of the key, oldest first
ForEach(b, key) == b.recs[key]

\* the oldest record is dropped when the key holds MaxRecords already
AddRecord(b, r) ==
    LET all == Append(b.recs[r.key], r)
    IN  [b EXCEPT !.recs[r.key] =
            IF Len(all) > MaxRecords THEN Tail(all) ELSE all]

RemoveAnalyzedRecords(b, key, upTo) ==
    LET Later(r) == r.time > upTo
    IN  [b EXCEPT !.recs[key] = SelectSeq(@, Later)]

ConfirmRecordCheck(b, r) == [b EXCEPT !.lastCheck[r.key] = r.time]

\* what clustering.Analyze can return for the items: no cluster, or the
\* representatives of one cluster or of two
Analyze(items) ==
    LET Rep(r) == InputRecord(r.key, r.time, 1)
    IN  {<<>>, <<Rep(items[1])>>, <<Rep(items[1]), Rep(items[Len(items)])>>}

\* a Preprocess that analyses already when the interval has just passed
DueAtInterval(b, r) == r.time - GetLastCheck(b, r.key) >= b.interval

\* rec.GetTime().Sub(lastCheck) > ci
Due(b, r) == r.time - GetLastCheck(b, r.key) > b.interval

\* a Preprocess that stamps the check and evicts whatever the analysis found
FoundAlways(items, clustered) == Len(items) > 0

\* len(items) > 0 and len(clustered) > 0
Found(items, clustered) == Len(items) > 0 /\ Len(clustered) > 0

\* Preprocess(rec, prevRecs), where clustered is what clustering.Analyze
\* returns if it is called: the records returned, the buffer afterwards and
\* the calls made
Preprocess(r, prevRecs, clustered) ==
    LET items == ForEach(prevRecs, r.key)
        analyzed == Due(prevRecs, r) /\ Len(items) > 0
        found == Due(prevRecs, r) /\ Found(items, clustered)
    IN  [ret |-> IF found THEN clustered ELSE <<r>>,
         buf |-> IF found
                 THEN ConfirmRecordCheck(
                          RemoveAnalyzedRecords(prevRecs, r.key, r.time), r)
                 ELSE prevRecs,
         analyzed |-> analyzed,
         removed |-> found,
         confirmed |-> found]

\* no tail processor is part of the run
NoBuffer == [interval |-> 0]

NoProcessor == [filePath |-> ""]

\* no batch run
NoBatch == [pc |-> "none"]

----------------------------------------------------------------------------
(* The goroutines *)

Senders == {"tail1", "tail2"}

SaverIds == {"autosave", "Close"}

\* Go's zero updateRequest, also what a receive from a closed channel yields
ZeroRequest == updateRequest("", ZeroLogRange)

SenderIdle == [pc |-> "idle", req |-> ZeroRequest]

ReaderAt(pc) == [pc |-> pc, req |-> ZeroRequest]

\* a save() is not running; pc tells what its goroutine does instead
SaverAt(pc) == [pc |-> pc, why |-> "none", prev |-> NoFile, data |-> <<>>]

\* the goroutine using the worklog; saved: a save() has returned since the
\* process started; hadGen: a file held a complete generation at Init; atCall:
\* the map that the requests sent before the call of Close make; atReturn: the
\* map when Close returned
MainAt(pc) ==
    [pc |-> pc, saved |-> FALSE, hadGen |-> FALSE, atCall |-> EmptyMap,
     atReturn |-> EmptyMap]

\* the state after a successful Init, before any other operation; the files
\* are left out where no operation reads or writes them
Initialised ==
    /\ storeFilePath = StoreFile
    /\ initialized = TRUE
    /\ updRequests = "open"
    /\ ctxDone = FALSE
    /\ files = [primary |-> NoFile, backup |-> NoFile]
    /\ main = MainAt("ready")
    /\ reader = ReaderAt("recv")
    /\ savers = [id \in SaverIds |-> IF id = "autosave" THEN SaverAt("wait")
                                     ELSE SaverAt("none")]
    /\ senders = [s \in Senders |-> SenderIdle]
    /\ crashes = 0

----------------------------------------------------------------------------
(* The request reader *)

\* Accepts with > for >= in its second line
AcceptsStartAfter(curr, v) ==
    \/ curr.Inode # v.Inode
    \/ ~curr.Written /\ curr.SeekStart > v.SeekStart
    \/ curr.Written /\ v.SeekEnd >= curr.SeekEnd
    \/ ~v.Written /\ (curr.Written \/ v.SeekEnd < curr.SeekEnd)

\* Accepts with > for >= in its third line
AcceptsEndAfter(curr, v) ==
    \/ curr.Inode # v.Inode
    \/ ~curr.Written /\ curr.SeekStart >= v.SeekStart
    \/ curr.Written /\ v.SeekEnd > curr.SeekEnd
    \/ ~v.Written /\ (curr.Written \/ v.SeekEnd < curr.SeekEnd)

\* Accepts with <= for >= in its third line
AcceptsEndBefore(curr, v) ==
    \/ curr.Inode # v.Inode
    \/ ~curr.Written /\ curr.SeekStart >= v.SeekStart
    \/ curr.Written /\ v.SeekEnd <= curr.SeekEnd
    \/ ~v.Written /\ (curr.Written \/ v.SeekEnd < curr.SeekEnd)

\* Accepts with <= for < in its fourth line
AcceptsEndNotAfter(curr, v) ==
    \/ curr.Inode # v.Inode
    \/ ~curr.Written /\ curr.SeekStart >= v.SeekStart
    \/ curr.Written /\ v.SeekEnd >= curr.SeekEnd
    \/ ~v.Written /\ (curr.Written \/ v.SeekEnd <= curr.SeekEnd)

\* the condition under which goReadRequests writes the request's value
Accepts(curr, v) ==
    \/ curr.Inode # v.Inode
    \/ ~curr.Written /\ curr.SeekStart >= v.SeekStart
    \/ curr.Written /\ v.SeekEnd >= curr.SeekEnd
    \/ ~v.Written /\ (curr.Written \/ v.SeekEnd < curr.SeekEnd)

NoCall == [op |-> "none"]

\* one iteration of the reader's loop for a received request; op names
\* the operation whose send the reader received, ret what that operation returns
goReadRequests(req, op, ret) ==
    LET curr == Get(rec, req.FilePath)
        acc  == Accepts(curr, req.Value)
    IN  /\ rec' = IF acc THEN Set(rec, req.FilePath, req.Value) ELSE rec
        /\ hist' = IF acc THEN Set(hist, req.FilePath, req.Value) ELSE hist
        /\ last' = [op |-> op, path |-> req.FilePath, cand |-> req.Value,
                    had |-> Has(rec, req.FilePath), curr |-> curr,
                    accepted |-> acc, ret |-> ret,
                    again |-> /\ last.op \in {"UpdateFileInfo", "ResetFile"}
                              /\ last.path = req.FilePath
                              /\ last.cand = req.Value]

----------------------------------------------------------------------------
(* The operations of the worklog *)

UpdateFileInfo(filePath, logPosition) ==
    /\ goReadRequests(updateRequest(filePath, logPosition), "UpdateFileInfo", 0)
    /\ UNCHANGED <<trace, proc>>

\* fsop.GetFileProps succeeds and returns inode
ResetFile(filePath, inode) ==
    /\ goReadRequests(
          updateRequest(filePath,
              [Inode |-> inode, SeekStart |-> 0, SeekEnd |-> 0, Written |-> TRUE]),
          "ResetFile", inode)
    /\ UNCHANGED <<trace, proc>>

\* fsop.GetFileProps fails: -1 and the error are returned, nothing is sent
ResetFileErr(filePath) ==
    /\ last' = [op |-> "ResetFileErr", path |-> filePath, ret |-> -1]
    /\ UNCHANGED <<rec, hist, trace, proc>>

\* GetData as it would be with Get in place of GetWithTest
GetDataZero(filePath) ==
    /\ last' = [op |-> "GetData", path |-> filePath, before |-> rec,
                ret |-> Get(rec, filePath)]
    /\ UNCHANGED <<rec, hist, trace, proc>>

GetData(filePath) ==
    /\ last' = [op |-> "GetData", path |-> filePath, before |-> rec,
                ret |-> IF Has(rec, filePath) THEN rec[filePath] ELSE UnknownLogRange]
    /\ UNCHANGED <<rec, hist, trace, proc>>

----------------------------------------------------------------------------
(* Construction and Init *)

\* a map that must not be used
NilMap == [nil |-> ZeroLogRange]

\* the struct NewWorklog returns, in a process that has just started
NewWorklog ==
    /\ rec = EmptyMap
    /\ initialized = FALSE
    /\ updRequests = "nil"
    /\ ctxDone = FALSE
    /\ main = MainAt("new")
    /\ reader = ReaderAt("none")
    /\ savers = [id \in SaverIds |-> SaverAt("none")]
    /\ senders = [s \in Senders |-> SenderIdle]

\* a Reset that leaves an empty store file also where there was none
TruncatedAlways(f) == File(<<>>)

\* os.Truncate(w.storeFilePath, 0) where fs.IsFile has found the file
Truncated(f) == IF storeFilePath # "" /\ f.exists THEN File(<<>>) ELSE f

\* Reset, called before Init: it returns nil, or the error of fs.IsFile or of
\* os.Truncate with the file as it was
WorklogReset ==
    /\ main.pc = "new"
    /\ \E err \in {"none", "stat", "truncate"} :
          /\ err = "truncate" => storeFilePath # "" /\ files.primary.exists
          /\ files' = IF err = "none"
                       THEN [files EXCEPT !.primary = Truncated(files.primary)]
                       ELSE files
          /\ last' = [op |-> "Reset", err |-> err, file |-> files.primary]
    /\ UNCHANGED <<rec, hist, trace, storeFilePath, initialized, updRequests,
                   ctxDone, main, reader, savers, senders, crashes, logBuffer, tp, batch>>

\* an Init that demands a store file holding a JSON object
ParsesData(f) == f.exists /\ IsJSON(f.data)

\* an Init that takes every content of the store file
ParsesAny(f) == TRUE

\* Init finds nothing it cannot parse: there is no file, no data, or the data
\* is a JSON object
Parses(f) == ~f.exists \/ Len(f.data) = 0 \/ IsJSON(f.data)

\* the map with which a successful Init leaves w.rec
Loaded(f) == IF f.exists /\ Len(f.data) > 0 THEN Unmarshal(f.data) ELSE rec

\* Init returns nil: the store file is missing, empty or holds a JSON object
WorklogInit ==
    /\ main.pc = "new"
    /\ ~initialized
    /\ storeFilePath # ""
    /\ Parses(files.primary)
    /\ rec' = Loaded(files.primary)
    /\ hist' = rec'
    /\ updRequests' = "open"
    /\ initialized' = TRUE
    /\ savers' = [savers EXCEPT !["autosave"] = SaverAt("wait")]
    /\ reader' = ReaderAt("recv")
    /\ main' = [MainAt("ready") EXCEPT
                    !.hadGen = Complete(files.primary) \/ Complete(files.backup)]
    /\ last' = [op |-> "Init", err |-> "none", file |-> files.primary,
                before |-> IF last.op \in {"Crash", "Reset"} THEN last ELSE NoCall]
    /\ UNCHANGED <<trace, storeFilePath, ctxDone, files, senders, crashes, logBuffer, tp, batch>>

\* Init returns an error: no path, fs.IsFile fails, os.ReadFile fails, or the
\* data is no JSON object. In the last case w.rec is assigned what
\* NewConcurrentMapFromJSON returned with its error.
WorklogInitErr ==
    /\ main.pc = "new"
    /\ ~initialized
    /\ \E err \in {"nopath", "stat", "read", "parse"} :
          /\ err = "nopath" <=> storeFilePath = ""
          /\ err = "read" => files.primary.exists
          /\ err = "parse" => ~Parses(files.primary)
          /\ rec' \in IF err = "parse" THEN {EmptyMap, NilMap} ELSE {rec}
          /\ last' = [op |-> "Init", err |-> err, file |-> files.primary,
                      before |-> IF last.op \in {"Crash", "Reset"} THEN last ELSE NoCall]
    /\ main' = [main EXCEPT !.pc = "failed"]
    /\ UNCHANGED <<hist, trace, storeFilePath, initialized, updRequests, ctxDone,
                   files, reader, savers, senders, crashes, logBuffer, tp, batch>>

----------------------------------------------------------------------------
(* save() and the goroutine of goAutosave *)

SaveSteps == {"backup", "copy", "primary", "write"}

\* an autosave that gives up when save() has failed
AfterSaveStop(id, ok) ==
    /\ savers' = [savers EXCEPT ![id] = SaverAt(IF ok THEN "wait" ELSE "stopped")]
    /\ main' = [main EXCEPT !.saved = TRUE]
    /\ last' = [op |-> "save", id |-> id, why |-> savers[id].why, ok |-> ok,
                prev |-> savers[id].prev, rec |-> rec, reader |-> reader.pc]

\* what the caller of save() does when save() has returned
AfterSave(id, ok) ==
    /\ savers' = [savers EXCEPT ![id] =
                    SaverAt(CASE savers[id].why = "tick" -> "wait"
                              [] savers[id].why = "cancel" -> "stopped"
                              [] OTHER -> "none")]
    /\ main' = [main EXCEPT !.saved = TRUE,
                            !.pc = IF id = "Close" THEN "closeChan" ELSE @]
    /\ last' = [op |-> "save", id |-> id, why |-> savers[id].why, ok |-> ok,
                prev |-> savers[id].prev, rec |-> rec, reader |-> reader.pc]

\* save() is entered and fs.IsFile has told whether the store file exists
SaveEntered(id, why) ==
    savers' = [savers EXCEPT ![id] =
                 [pc |-> IF files.primary.exists THEN "backup" ELSE "primary",
                  why |-> why, prev |-> files.primary, data |-> <<>>]]

\* save() is entered by the goroutine of goAutosave
SaveBegin(id, why) ==
    /\ SaveEntered(id, why)
    /\ UNCHANGED <<rec, hist, last, trace, storeFilePath, initialized, updRequests,
                   ctxDone, files, main, reader, senders, crashes, logBuffer, tp, batch>>

\* the ticker of goAutosave fires
AutosaveTick ==
    /\ savers["autosave"].pc = "wait"
    /\ SaveBegin("autosave", "tick")

\* os.OpenFile(w.backupFilePath, O_CREATE|O_RDWR|O_TRUNC)
SaveOpenBackup(id) ==
    /\ savers[id].pc = "backup"
    /\ files' = [files EXCEPT !.backup = File(<<>>)]
    /\ savers' = [savers EXCEPT ![id].pc = "copy"]
    /\ UNCHANGED <<rec, hist, last, trace, storeFilePath, initialized, updRequests,
                   ctxDone, main, reader, senders, crashes, logBuffer, tp, batch>>

\* a save() that opens the backup and copies nothing into it
SaveCopyNothing(id) ==
    /\ savers[id].pc = "copy"
    /\ savers' = [savers EXCEPT ![id].pc = "primary"]
    /\ UNCHANGED <<rec, hist, last, trace, storeFilePath, initialized, updRequests,
                   ctxDone, files, main, reader, senders, crashes, logBuffer, tp, batch>>

\* os.Open(w.storeFilePath) and io.Copy(backup, f0)
SaveCopy(id) ==
    /\ savers[id].pc = "copy"
    /\ files.primary.exists
    /\ files' = [files EXCEPT !.backup = File(files.primary.data)]
    /\ savers' = [savers EXCEPT ![id].pc = "primary"]
    /\ UNCHANGED <<rec, hist, last, trace, storeFilePath, initialized, updRequests,
                   ctxDone, main, reader, senders, crashes, logBuffer, tp, batch>>

\* os.OpenFile(w.storeFilePath, O_CREATE|O_RDWR|O_TRUNC)
SaveOpenPrimary(id) ==
    /\ savers[id].pc = "primary"
    /\ files' = [files EXCEPT !.primary = File(<<>>)]
    /\ savers' = [savers EXCEPT ![id].pc = "write"]
    /\ UNCHANGED <<rec, hist, last, trace, storeFilePath, initialized, updRequests,
                   ctxDone, main, reader, senders, crashes, logBuffer, tp, batch>>

\* json.Marshal(w.rec) and f1.Write(data); save() returns nil
SaveWrite(id) ==
    /\ savers[id].pc = "write"
    /\ files' = [files EXCEPT !.primary = File(Marshal(rec))]
    /\ AfterSave(id, TRUE)
    /\ UNCHANGED <<rec, hist, trace, storeFilePath, initialized, updRequests,
                   ctxDone, reader, senders, crashes, logBuffer, tp, batch>>

\* what the failing call of a step leaves in the files
FilesAfterFail(pc) ==
    CASE pc = "copy" /\ files.primary.exists ->
            { [files EXCEPT !.backup = File(d)] : d \in Prefixes(files.primary.data) }
      [] pc = "write" ->
            { [files EXCEPT !.primary = File(d)] : d \in Prefixes(Marshal(rec)) }
      [] OTHER -> {files}

\* the call of the current step fails and save() returns its error
SaveFail(id) ==
    /\ savers[id].pc \in SaveSteps
    /\ files' \in FilesAfterFail(savers[id].pc)
    /\ AfterSave(id, FALSE)
    /\ UNCHANGED <<rec, hist, trace, storeFilePath, initialized, updRequests,
                   ctxDone, reader, senders, crashes, logBuffer, tp, batch>>

----------------------------------------------------------------------------
(* SpecStore: Init, autosave and the updates of one path, in a process     *)
(* that can be killed at any moment and is then started again              *)

MaxCrashes == 1

StorePath == "/var/log/a.log"

StoreRanges ==
    { [Inode |-> 1, SeekStart |-> 0, SeekEnd |-> 1, Written |-> wr] : wr \in BOOLEAN }

StoreMaps == {EmptyMap} \cup { Set(EmptyMap, StorePath, v) : v \in StoreRanges }

\* the store files a process can find when it starts for the first time
StoreInputs ==
    {NoFile, File(<<>>), File(<<Brace("{")>>)} \cup { File(Marshal(m)) : m \in StoreMaps }

InitStore ==
    /\ NewWorklog
    /\ hist = rec
    /\ last = NoCall
    /\ trace = <<>>
    /\ storeFilePath \in {"", StoreFile}
    /\ files \in [primary : StoreInputs, backup : {NoFile}]
    /\ crashes = 0
    /\ logBuffer = NoBuffer
    /\ tp = NoProcessor
    /\ batch = NoBatch

StoreUpdate ==
    /\ main.pc = "ready"
    /\ \E v \in StoreRanges : UpdateFileInfo(StorePath, v)

\* a save() is being executed
Saving == { id \in SaverIds : savers[id].pc \in SaveSteps }

\* the process is killed, possibly in the middle of a copy or a write, and a
\* new process calls NewWorklog
Crash ==
    /\ crashes < MaxCrashes
    /\ main.pc = "ready"
    /\ crashes' = crashes + 1
    /\ files' \in {files} \cup UNION { FilesAfterFail(savers[id].pc) : id \in Saving }
    /\ last' = [op |-> "Crash", inSave |-> Saving # {},
                prev |-> IF Saving # {} THEN savers[CHOOSE id \in Saving : TRUE].prev
                         ELSE NoFile,
                rec |-> rec]
    /\ rec' = EmptyMap
    /\ hist' = EmptyMap
    /\ initialized' = FALSE
    /\ updRequests' = "nil"
    /\ main' = MainAt("new")
    /\ reader' = ReaderAt("none")
    /\ savers' = [id \in SaverIds |-> SaverAt("none")]
    /\ senders' = [s \in Senders |-> SenderIdle]
    /\ UNCHANGED <<trace, storeFilePath, ctxDone, logBuffer, tp, batch>>

DoSaveOpenBackup == \E id \in SaverIds : SaveOpenBackup(id)

DoSaveCopy == \E id \in SaverIds : SaveCopy(id)

DoSaveOpenPrimary == \E id \in SaverIds : SaveOpenPrimary(id)

DoSaveWrite == \E id \in SaverIds : SaveWrite(id)

DoSaveFail == \E id \in SaverIds : SaveFail(id)

NextStore ==
    \/ WorklogReset
    \/ WorklogInit
    \/ WorklogInitErr
    \/ StoreUpdate
    \/ AutosaveTick
    \/ DoSaveOpenBackup
    \/ DoSaveCopy
    \/ DoSaveOpenPrimary
    \/ DoSaveWrite
    \/ DoSaveFail
    \/ Crash

SpecStore == InitStore /\ [][NextStore]_vars

----------------------------------------------------------------------------
(* SpecLife: senders, the request reader, cancellation and Close as the    *)
(* goroutines they are. A send and its receive are one step, since the     *)
(* channel has no buffer; what the reader does with the request is the     *)
(* next step of the reader. No file operation fails.                       *)

\* what the senders report: the first chunk of the file, written
LifeRanges == { v \in StoreRanges : v.Written }

\* UpdateFileInfo as it would be if it stored the range itself
SendCallDirect(s) ==
    /\ initialized
    /\ senders[s].pc = "idle"
    /\ \E v \in LifeRanges : rec' = Set(rec, StorePath, v)
    /\ UNCHANGED <<hist, last, trace, storeFilePath, initialized, updRequests,
                   ctxDone, files, main, reader, senders, savers, crashes, logBuffer, tp, batch>>

\* UpdateFileInfo is called on an initialised worklog and reaches its send
SendCall(s) ==
    /\ initialized
    /\ senders[s].pc = "idle"
    /\ \E v \in LifeRanges :
          senders' = [senders EXCEPT ![s] =
                        [pc |-> "send", req |-> updateRequest(StorePath, v)]]
    /\ UNCHANGED <<rec, hist, last, trace, storeFilePath, initialized, updRequests,
                   ctxDone, files, main, reader, savers, crashes, logBuffer, tp, batch>>

\* the map after one more request has passed the condition of the reader
Reconciled(m, req) ==
    IF Accepts(Get(m, req.FilePath), req.Value)
    THEN Set(m, req.FilePath, req.Value) ELSE m

\* case req := <-w.updRequests, with a sender: UpdateFileInfo returns
ReaderRecv(s) ==
    /\ reader.pc = "recv"
    /\ updRequests = "open"
    /\ senders[s].pc = "send"
    /\ reader' = [pc |-> "proc", req |-> senders[s].req]
    /\ senders' = [senders EXCEPT ![s] = SenderIdle]
    /\ hist' = Reconciled(hist, senders[s].req)
    /\ UNCHANGED <<rec, last, trace, storeFilePath, initialized, updRequests,
                   ctxDone, files, main, savers, crashes, logBuffer, tp, batch>>

\* case req := <-w.updRequests, on the closed channel: the zero request
ReaderRecvClosed ==
    /\ reader.pc = "recv"
    /\ updRequests = "closed"
    /\ reader' = [pc |-> "proc", req |-> ZeroRequest]
    /\ UNCHANGED <<rec, hist, last, trace, storeFilePath, initialized, updRequests,
                   ctxDone, files, main, senders, savers, crashes, logBuffer, tp, batch>>

\* the body of the case: Get, the condition, Set
ReaderProc ==
    /\ reader.pc = "proc"
    /\ rec' = Reconciled(rec, reader.req)
    /\ reader' = ReaderAt("recv")
    /\ last' = [op |-> "reconcile", path |-> reader.req.FilePath,
                cand |-> reader.req.Value, had |-> Has(rec, reader.req.FilePath)]
    /\ UNCHANGED <<hist, trace, storeFilePath, initialized, updRequests, ctxDone,
                   files, main, senders, savers, crashes, logBuffer, tp, batch>>

\* case <-ctx.Done() of the reader: return
ReaderStop ==
    /\ reader.pc = "recv"
    /\ ctxDone
    /\ reader' = ReaderAt("stopped")
    /\ UNCHANGED <<rec, hist, last, trace, storeFilePath, initialized, updRequests,
                   ctxDone, files, main, senders, savers, crashes, logBuffer, tp, batch>>

\* a send on the closed channel panics, which ends the process with all its
\* goroutines
SenderPanic(s) ==
    /\ senders[s].pc = "send"
    /\ updRequests = "closed"
    /\ senders' = [x \in Senders |-> IF x = s THEN [senders[s] EXCEPT !.pc = "panic"]
                                      ELSE SenderIdle]
    /\ main' = [main EXCEPT !.pc = "dead"]
    /\ reader' = ReaderAt("none")
    /\ savers' = [id \in SaverIds |-> SaverAt("none")]
    /\ last' = [op |-> "panic"]
    /\ UNCHANGED <<rec, hist, trace, storeFilePath, initialized, updRequests,
                   ctxDone, files, crashes, logBuffer, tp, batch>>

\* the context passed to Init is cancelled
Cancel ==
    /\ ~ctxDone
    /\ main.pc # "dead"
    /\ ctxDone' = TRUE
    /\ UNCHANGED <<rec, hist, last, trace, storeFilePath, initialized, updRequests,
                   files, main, reader, senders, savers, crashes, logBuffer, tp, batch>>

\* case <-ctx.Done() of goAutosave: save and return
AutosaveCancel ==
    /\ savers["autosave"].pc = "wait"
    /\ ctxDone
    /\ SaveBegin("autosave", "cancel")

\* Close is called and enters save()
CloseCall ==
    /\ main.pc = "ready"
    /\ SaveEntered("Close", "close")
    /\ main' = [main EXCEPT !.pc = "closing", !.atCall = hist]
    /\ UNCHANGED <<rec, hist, last, trace, storeFilePath, initialized, updRequests,
                   ctxDone, files, reader, senders, crashes, logBuffer, tp, batch>>

\* Close after save(): close(w.updRequests), initialized = false, return
CloseChan ==
    /\ main.pc = "closeChan"
    /\ updRequests' = IF updRequests = "nil" THEN "nil" ELSE "closed"
    /\ initialized' = FALSE
    /\ main' = [main EXCEPT !.pc = "closed", !.atReturn = rec]
    /\ last' = [op |-> "Close"]
    /\ UNCHANGED <<rec, hist, trace, storeFilePath, ctxDone, files, reader, senders,
                   savers, crashes, logBuffer, tp, batch>>

InitLife ==
    /\ rec = EmptyMap
    /\ hist = rec
    /\ last = NoCall
    /\ trace = <<>>
    /\ Initialised
    /\ logBuffer = NoBuffer
    /\ tp = NoProcessor
    /\ batch = NoBatch

DoSendCall == \E s \in Senders : SendCall(s)

DoReaderRecv == \E s \in Senders : ReaderRecv(s)

DoSenderPanic == \E s \in Senders : SenderPanic(s)

NextLife ==
    \/ DoSendCall
    \/ DoReaderRecv
    \/ ReaderRecvClosed
    \/ ReaderProc
    \/ ReaderStop
    \/ DoSenderPanic
    \/ Cancel
    \/ AutosaveTick
    \/ AutosaveCancel
    \/ CloseCall
    \/ CloseChan
    \/ DoSaveOpenBackup
    \/ DoSaveCopy
    \/ DoSaveOpenPrimary
    \/ DoSaveWrite

SpecLife == InitLife /\ [][NextLife]_vars

----------------------------------------------------------------------------
(* SpecBuf: the processable records of a log, with times that do not       *)
(* decrease, each passed through Preprocess and then added to the buffer   *)
(* as OnEntry does                                                         *)

RECURSIVE AddRecords(_, _)
\* OnEntry: tp.logBuffer.AddRecord(precord) for every record of prepInp
AddRecords(b, rs) ==
    IF rs = <<>> THEN b ELSE AddRecords(AddRecord(b, Head(rs)), Tail(rs))

\* no Preprocess has run; runs: history, per key the time of the record for
\* which the analyzer ran last
NoPreprocess ==
    [op |-> "none", rec |-> InputRecord("client1", 0, 0),
     runs |-> [k \in Keys |-> ZeroTime]]

InitBuf ==
    /\ rec = EmptyMap
    /\ hist = rec
    /\ last = NoPreprocess
    /\ trace = <<>>
    /\ Initialised
    /\ logBuffer \in { NewStorage(i) : i \in 1..MaxInterval }
    /\ tp = NoProcessor
    /\ batch = NoBatch

\* OnEntry for a line that parses to the processable record r
PreprocessRecord(r) ==
    \E clustered \in IF Due(logBuffer, r) /\ Len(ForEach(logBuffer, r.key)) > 0
                     THEN Analyze(ForEach(logBuffer, r.key)) ELSE {<<>>} :
        LET p == Preprocess(r, logBuffer, clustered)
        IN  /\ logBuffer' = AddRecords(p.buf, p.ret)
            /\ last' = [op |-> "Preprocess", rec |-> r,
                        clustered |-> clustered, ret |-> p.ret,
                        analyzed |-> p.analyzed, removed |-> p.removed,
                        confirmed |-> p.confirmed,
                        prevRun |-> last.runs[r.key],
                        runs |-> IF p.analyzed
                                 THEN [last.runs EXCEPT ![r.key] = r.time]
                                 ELSE last.runs]
            /\ UNCHANGED <<rec, hist, trace, storeFilePath, initialized,
                           updRequests, ctxDone, files, main, reader, savers,
                           senders, crashes, tp, batch>>

NextBuf ==
    \E k \in Keys, t \in last.rec.time..MaxTime : PreprocessRecord(InputRecord(k, t, 0))

SpecBuf == InitBuf /\ [][NextBuf]_vars

----------------------------------------------------------------------------
(* Spec: the operations called with any argument, on any loaded map *)

Init ==
    /\ rec \in StoredMaps
    /\ hist = rec
    /\ last = NoCall
    /\ trace = <<>>
    /\ Initialised
    /\ logBuffer = NoBuffer
    /\ tp = NoProcessor
    /\ batch = NoBatch

\* the path the operations are called with: the map treats its keys alike,
\* and the loaded map holds any entries of both paths
CalledPath == "/var/log/a.log"

DoUpdateFileInfo == \E v \in LogRanges : UpdateFileInfo(CalledPath, v)

DoResetFile == \E i \in Inodes : ResetFile(CalledPath, i)

DoResetFileErr == ResetFileErr(CalledPath)

DoGetData == GetData(CalledPath)

Next ==
    \/ DoUpdateFileInfo
    \/ DoResetFile
    \/ DoResetFileErr
    \/ DoGetData

Spec == Init /\ [][Next]_vars

----------------------------------------------------------------------------
(* SpecTrace: one path with no entry receives up to MaxTrace requests,      *)
(* which the trace records together with what the reader read and decided  *)

TracePath == "/var/log/a.log"

TraceSpans == {<<0, 50>>, <<0, 100>>, <<50, 100>>}

TraceRanges ==
    { [Inode |-> i, SeekStart |-> sp[1], SeekEnd |-> sp[2], Written |-> wr] :
        i \in Inodes, sp \in TraceSpans, wr \in BOOLEAN }

InitTrace ==
    /\ rec = EmptyMap
    /\ hist = rec
    /\ last = NoCall
    /\ trace = <<>>
    /\ Initialised
    /\ logBuffer = NoBuffer
    /\ tp = NoProcessor
    /\ batch = NoBatch

TraceSend ==
    /\ Len(trace) < MaxTrace
    /\ \E v \in TraceRanges :
          goReadRequests(updateRequest(TracePath, v), "UpdateFileInfo", 0)
    /\ trace' = Append(trace, last')
    /\ UNCHANGED proc

NextTrace == TraceSend

SpecTrace == InitTrace /\ [][NextTrace]_vars

----------------------------------------------------------------------------
(* SpecTail: one file of one identity is read chunk by chunk up to         *)
(* position MaxPos. Every chunk is reported as not written when it is read *)
(* and as written when its confirmation arrives, which happens at any      *)
(* later moment and in any order among the chunks.                         *)

TailPath == "/var/log/a.log"

TailReported(wr) ==
    { trace[k].cand : k \in { j \in 1..Len(trace) : trace[j].cand.Written = wr } }

Confirmed(v) == [v EXCEPT !.Written = TRUE]

\* the position up to which the file has been read
TailPos ==
    IF trace = <<>> THEN 0
    ELSE CHOOSE e \in 0..MaxPos :
            /\ \E v \in TailReported(FALSE) : v.SeekEnd = e
            /\ \A v \in TailReported(FALSE) : v.SeekEnd <= e

TailInodes == IF trace = <<>> THEN Inodes ELSE {trace[1].cand.Inode}

TailRead ==
    /\ TailPos < MaxPos
    /\ \E i \in TailInodes, n \in 1..(MaxPos - TailPos) :
          goReadRequests(
              updateRequest(TailPath,
                  [Inode |-> i, SeekStart |-> TailPos, SeekEnd |-> TailPos + n,
                   Written |-> FALSE]),
              "UpdateFileInfo", 0)
    /\ trace' = Append(trace, last')
    /\ UNCHANGED proc

TailConfirm ==
    /\ \E v \in TailReported(FALSE) :
          /\ Confirmed(v) \notin TailReported(TRUE)
          /\ goReadRequests(updateRequest(TailPath, Confirmed(v)), "UpdateFileInfo", 0)
    /\ trace' = Append(trace, last')
    /\ UNCHANGED proc

InitTail ==
    /\ rec = EmptyMap
    /\ hist = rec
    /\ last = NoCall
    /\ trace = <<>>
    /\ Initialised
    /\ logBuffer = NoBuffer
    /\ tp = NoProcessor
    /\ batch = NoBatch

NextTail ==
    \/ TailRead
    \/ TailConfirm

SpecTail == InitTail /\ [][NextTail]_vars

----------------------------------------------------------------------------
(* SpecProc: one check of one watched file by a tailProcessor. The tail    *)
(* engine calls OnCheckStart, OnEntry for every new line and OnCheckStop,   *)
(* and reconciles every message of the confirmation channel into the       *)
(* worklog. Line i of the file is the byte range [i-1, i).                 *)

\* what a line turns out to be inside OnEntry
LineKinds ==
    {"unparsable", "unprocessable", "preprocessErr", "transformErr", "ok",
     "excluded", "expanded", "expandedErr"}

\* the lines for which OnEntry reaches the loop over the records of Preprocess
Preprocessed == {"transformErr", "ok", "excluded", "expanded", "expandedErr"}

\* for a line that reaches the loop: whether Transform succeeds, for each
\* record Preprocess has returned
Transforms(item) ==
    CASE item = "ok"           -> <<TRUE>>
      [] item = "transformErr" -> <<FALSE>>
      [] item = "expanded"     -> <<TRUE, TRUE>>
      [] item = "expandedErr"  -> <<TRUE, FALSE>>
      [] OTHER                 -> <<>>

RECURSIVE SeqsUpTo(_, _)
SeqsUpTo(S, n) ==
    IF n = 0 THEN {<<>>}
    ELSE LET shorter == SeqsUpTo(S, n - 1)
         IN  shorter \cup { Append(s, x) : s \in { q \in shorter : Len(q) = n - 1 }, x \in S }

RECURSIVE Count(_, _)
Count(s, S) ==
    IF s = <<>> THEN 0
    ELSE (IF Head(s) \in S THEN 1 ELSE 0) + Count(Tail(s), S)

\* the range of line i of the file, whose inode is 1
LinePosition(i) == [Inode |-> 1, SeekStart |-> i - 1, SeekEnd |-> i, Written |-> FALSE]

NewIgnoredItemMsg(filePath, logPosition) ==
    [msg |-> "ignored", FilePath |-> filePath, Position |-> logPosition]

ConfirmMsg(item) ==
    [msg |-> "written", FilePath |-> item.FilePath, Position |-> item.FilePos]

BoundOutputRecord(filePath, logPosition) == [FilePath |-> filePath, FilePos |-> logPosition]

Chan == [buf |-> <<>>, closed |-> FALSE]

Routine(pc) == [pc |-> pc, msg |-> NoCall]

\* a tailProcessor for a file of the given lines, no check started; pending:
\* the records of the line OnEntry is at; emits: per line, the messages
\* OnEntry has sent for it
newTailProcessor(lines, dryRun) ==
    [filePath |-> TailPath, dryRun |-> dryRun, lines |-> lines, pc |-> "idle",
     next |-> 1, pending |-> <<>>,
     Elastic |-> Chan, Ignored |-> Chan, confirmChan |-> Chan,
     itemConfirm |-> Chan, sink |-> Routine("none"), fwdSink |-> Routine("none"),
     fwdIgnored |-> Routine("none"), merge |-> Routine("none"),
     closes |-> 0, itemCloses |-> 0, read |-> 0, emitted |-> 0, forwarded |-> 0,
     enqueued |-> 0, ignored |-> 0, seen |-> [ignored |-> 0, written |-> 0],
     emits |-> [i \in DOMAIN lines |-> [ignored |-> 0, enqueued |-> 0]]]

\* everything outside the processor and the ledger's map
Outside ==
    UNCHANGED <<trace, storeFilePath, initialized, updRequests, ctxDone, files,
                main, reader, savers, senders, crashes, logBuffer, batch>>

OnCheckStart ==
    /\ tp.pc = "idle"
    /\ tp' = [tp EXCEPT !.pc = "entries", !.sink = Routine("recv"),
                        !.fwdSink = Routine("recv"), !.fwdIgnored = Routine("recv"),
                        !.merge = Routine("wait")]
    /\ UNCHANGED <<rec, hist, last>>
    /\ Outside

\* OnEntry that asks Preprocess before it asks IsProcessable
OnEntryCallsEager(kind) ==
    CASE kind = "unparsable"    -> <<"ParseLine">>
      [] kind = "unprocessable" -> <<"ParseLine", "Preprocess", "IsProcessable">>
      [] kind \in {"preprocessErr", "excluded"} ->
                                   <<"ParseLine", "IsProcessable", "Preprocess">>
      [] kind = "transformErr"  -> <<"ParseLine", "IsProcessable", "Preprocess",
                                     "AddRecord", "Transform">>
      [] OTHER                  -> <<"ParseLine", "IsProcessable", "Preprocess",
                                     "AddRecord", "Transform", "applyLocation", "Ping">>

\* the calls OnEntry makes for a line, in the order of their first call
OnEntryCalls(kind) ==
    CASE kind = "unparsable"    -> <<"ParseLine">>
      [] kind = "unprocessable" -> <<"ParseLine", "IsProcessable">>
      [] kind \in {"preprocessErr", "excluded"} ->
                                   <<"ParseLine", "IsProcessable", "Preprocess">>
      [] kind = "transformErr"  -> <<"ParseLine", "IsProcessable", "Preprocess",
                                     "AddRecord", "Transform">>
      [] OTHER                  -> <<"ParseLine", "IsProcessable", "Preprocess",
                                     "AddRecord", "Transform", "applyLocation", "Ping">>

\* the send of an Ignored message for the line OnEntry is at, taken by the
\* forwarder of that channel, and the return of OnEntry
SendIgnored(logPosition) ==
    /\ tp.fwdIgnored.pc = "recv"
    /\ tp' = [tp EXCEPT !.pc = "entries", !.next = @ + 1, !.pending = <<>>,
                        !.ignored = @ + 1,
                        !.emits[tp.next].ignored = @ + 1,
                        !.fwdIgnored = [pc |-> "send",
                                        msg |-> NewIgnoredItemMsg(tp.filePath, logPosition)]]

\* OnEntry for the next line, up to the loop over the records of Preprocess
OnEntry(item, logPosition) ==
    /\ tp.pc = "entries"
    /\ tp.next <= Len(tp.lines)
    /\ IF item \notin Preprocessed
       THEN SendIgnored(logPosition)
       ELSE tp' = IF Transforms(item) = <<>>
                  THEN [tp EXCEPT !.next = @ + 1]
                  ELSE [tp EXCEPT !.pc = "entry", !.pending = Transforms(item)]
    /\ last' = [op |-> "OnEntry", item |-> item, logPosition |-> logPosition,
                calls |-> OnEntryCalls(item)]
    /\ UNCHANGED <<rec, hist>>
    /\ Outside

\* one iteration of the loop of OnEntry: AddRecord, Transform, and either the
\* send on Elastic, which waits for room in the queue, or the Ignored message
OnEntryRecord(item, logPosition) ==
    /\ tp.pc = "entry"
    /\ IF Head(tp.pending)
       THEN /\ Len(tp.Elastic.buf) < ElasticChunkSize * 2
            /\ tp' = [tp EXCEPT !.pending = Tail(@), !.enqueued = @ + 1,
                        !.emits[tp.next].enqueued = @ + 1,
                        !.Elastic.buf = Append(@, BoundOutputRecord(tp.filePath, logPosition)),
                        !.pc = IF Tail(tp.pending) = <<>> THEN "entries" ELSE @,
                        !.next = IF Tail(tp.pending) = <<>> THEN @ + 1 ELSE @]
       ELSE SendIgnored(logPosition)
    /\ last' = [op |-> "OnEntry", item |-> item, logPosition |-> logPosition,
                calls |-> OnEntryCalls(item)]
    /\ UNCHANGED <<rec, hist>>
    /\ Outside

OnCheckStop ==
    /\ tp.pc = "entries"
    /\ tp.next > Len(tp.lines)
    /\ tp' = [tp EXCEPT !.pc = "stopped", !.Elastic.closed = TRUE,
                        !.Ignored.closed = TRUE]
    /\ UNCHANGED <<rec, hist, last>>
    /\ Outside

\* the dry-run consumer as it would be if a failed ToJSON ended its loop
AfterToJSONStop(err) == IF err THEN "end" ELSE "recv"

\* where the dry-run consumer continues after ToJSON of an item
AfterToJSON(err) == "recv"

\* one iteration of the loop of the dry-run consumer
RunWriteConsumerItem ==
    /\ tp.dryRun
    /\ tp.sink.pc = "recv"
    /\ tp.Elastic.buf # <<>>
    /\ \E err \in BOOLEAN :
          /\ tp' = [tp EXCEPT !.Elastic.buf = Tail(@), !.read = @ + 1,
                              !.sink.pc = AfterToJSON(err)]
          /\ last' = [op |-> "RunWriteConsumer", item |-> Head(tp.Elastic.buf),
                      err |-> err, printed |-> ~err]
    /\ UNCHANGED <<rec, hist>>
    /\ Outside

\* the loop of the consumer is over: the deferred close of confirmChan
RunWriteConsumerEnd ==
    /\ tp.sink.pc \in {"recv", "end"}
    /\ tp.sink.pc = "recv" => tp.Elastic.buf = <<>> /\ tp.Elastic.closed
    /\ tp' = [tp EXCEPT !.sink.pc = "done", !.confirmChan.closed = TRUE,
                        !.closes = @ + 1]
    /\ UNCHANGED <<rec, hist, last>>
    /\ Outside

\* the consumer of the configured sink writes an item and reports it to the
\* forwarder of its confirmations
ElasticWriteConsumerItem ==
    /\ ~tp.dryRun
    /\ tp.sink.pc = "recv"
    /\ tp.Elastic.buf # <<>>
    /\ tp.fwdSink.pc = "recv"
    /\ tp' = [tp EXCEPT !.Elastic.buf = Tail(@), !.read = @ + 1, !.emitted = @ + 1,
                        !.fwdSink = [pc |-> "send", msg |-> ConfirmMsg(Head(tp.Elastic.buf))]]
    /\ UNCHANGED <<rec, hist, last>>
    /\ Outside

\* a forwarder passes the message it holds on to itemConfirm
Forward(f) ==
    /\ tp[f].pc = "send"
    /\ Len(tp.itemConfirm.buf) < ItemConfirmSize
    /\ tp' = [tp EXCEPT ![f] = Routine("recv"), !.forwarded = @ + 1,
                        !.itemConfirm.buf = Append(@, tp[f].msg)]
    /\ UNCHANGED <<rec, hist, last>>
    /\ Outside

\* a forwarder finds its channel closed: waitMergeEnd.Done()
ForwardEnd(f, ch) ==
    /\ tp[f].pc = "recv"
    /\ tp[ch].closed
    /\ tp' = [tp EXCEPT ![f] = Routine("done")]
    /\ UNCHANGED <<rec, hist, last>>
    /\ Outside

ForwardConfirm == Forward("fwdSink")

ForwardIgnored == Forward("fwdIgnored")

ForwardConfirmEnd == ForwardEnd("fwdSink", "confirmChan")

ForwardIgnoredEnd == ForwardEnd("fwdIgnored", "Ignored")

\* a wait group that lets Wait() return after the first Done()
WaitReturnsEarly(done) == done # {}

\* waitMergeEnd.Wait() after Add(2): returns when both forwarders are done
WaitReturns(done) == done = {"fwdSink", "fwdIgnored"}

\* waitMergeEnd.Wait() returns and itemConfirm is closed
MergeEnd ==
    /\ tp.merge.pc = "wait"
    /\ WaitReturns({ f \in {"fwdSink", "fwdIgnored"} : tp[f].pc = "done" })
    /\ tp' = [tp EXCEPT !.merge = Routine("done"), !.itemConfirm.closed = TRUE,
                        !.itemCloses = @ + 1]
    /\ UNCHANGED <<rec, hist, last>>
    /\ Outside

\* the tail engine takes a message from itemConfirm and reports its range
\* to the worklog as written
Reconcile ==
    /\ tp.itemConfirm.buf # <<>>
    /\ LET m == Head(tp.itemConfirm.buf)
       IN  /\ goReadRequests(updateRequest(m.FilePath, Confirmed(m.Position)),
                             "UpdateFileInfo", 0)
           /\ tp' = [tp EXCEPT !.itemConfirm.buf = Tail(@), !.seen[m.msg] = @ + 1]
    /\ Outside

\* the check is over: itemConfirm is closed and all its messages reconciled
CheckDone == tp.itemConfirm.closed /\ tp.itemConfirm.buf = <<>>

InitProc ==
    /\ rec = EmptyMap
    /\ hist = rec
    /\ last = NoCall
    /\ trace = <<>>
    /\ Initialised
    /\ logBuffer = NoBuffer
    /\ batch = NoBatch
    /\ tp \in { newTailProcessor(lines, dryRun) :
                  lines \in SeqsUpTo(LineKinds, MaxLines) \ {<<>>}, dryRun \in BOOLEAN }

DoOnEntry == OnEntry(tp.lines[tp.next], LinePosition(tp.next))

DoOnEntryRecord == OnEntryRecord(tp.lines[tp.next], LinePosition(tp.next))

NextProc ==
    \/ OnCheckStart
    \/ DoOnEntry
    \/ DoOnEntryRecord
    \/ OnCheckStop
    \/ RunWriteConsumerItem
    \/ RunWriteConsumerEnd
    \/ ElasticWriteConsumerItem
    \/ ForwardConfirm
    \/ ForwardIgnored
    \/ ForwardConfirmEnd
    \/ ForwardIgnoredEnd
    \/ MergeEnd
    \/ Reconcile

SpecProc == InitProc /\ [][NextProc]_vars

----------------------------------------------------------------------------
(* SpecAwait: the check of a file in the order of the tail state machine,  *)
(* in which the confirmations are awaited and reconciled after the lines   *)
(* of the check were dispatched. The lines of a file are all alike.        *)

\* the lines of the file: as many as itemConfirm, a forwarder and one more
\* send can take
MaxAwaitLines == 12

\* AwaitConfirmations comes after PerLine
ReconcileAfter ==
    /\ tp.pc = "stopped"
    /\ Reconcile

InitAwait ==
    /\ rec = EmptyMap
    /\ hist = rec
    /\ last = NoCall
    /\ trace = <<>>
    /\ Initialised
    /\ logBuffer = NoBuffer
    /\ batch = NoBatch
    /\ tp \in { newTailProcessor([i \in 1..n |-> item], dryRun) :
                  n \in 1..MaxAwaitLines, item \in {"unparsable", "ok", "expandedErr"},
                  dryRun \in BOOLEAN }

NextAwait ==
    \/ OnCheckStart
    \/ DoOnEntry
    \/ DoOnEntryRecord
    \/ OnCheckStop
    \/ RunWriteConsumerItem
    \/ RunWriteConsumerEnd
    \/ ElasticWriteConsumerItem
    \/ ForwardConfirm
    \/ ForwardIgnored
    \/ ForwardConfirmEnd
    \/ ForwardIgnoredEnd
    \/ MergeEnd
    \/ ReconcileAfter

SpecAwait == InitAwait /\ [][NextAwait]_vars

----------------------------------------------------------------------------
(* SpecBatch: runBatchAction with its two sinks. Each sink has a queue, a  *)
(* consumer that closes its confirmation channel when the queue is closed  *)
(* and drained, and a goroutine of runBatchAction reading that channel.    *)

Sinks == {"es", "influx"}

\* channelWriteES and channelWriteInflux
QueueSize(k) == IF k = "es" THEN ElasticChunkSize * 2 ELSE InfluxChunkSize

\* runBatchAction up to the call of the processing function; items: the
\* output records the log files will yield
runBatchAction(items, dryRun) ==
    [pc |-> "proc", dryRun |-> dryRun, items |-> items,
     queue |-> [k \in Sinks |-> [len |-> 0, closed |-> FALSE]],
     consumer |-> [k \in Sinks |-> "recv"],
     confirm |-> [k \in Sinks |-> [closed |-> FALSE, read |-> 0]],
     readers |-> [k \in Sinks |-> "range"],
     wg |-> 0, finishEvent |-> 0]

\* everything but the batch run
NoTail ==
    UNCHANGED <<rec, hist, last, trace, storeFilePath, initialized, updRequests,
                ctxDone, files, main, reader, savers, senders, crashes, logBuffer, tp>>

\* the processing function puts an output record on every queue
BatchProcItem ==
    /\ batch.pc = "proc"
    /\ batch.items > 0
    /\ \A k \in Sinks : batch.queue[k].len < QueueSize(k)
    /\ batch' = [batch EXCEPT !.items = @ - 1,
                              !.queue = [k \in Sinks |-> [@[k] EXCEPT !.len = @ + 1]]]
    /\ NoTail

\* the processing function has returned: close(channelWriteES),
\* close(channelWriteInflux)
BatchClose ==
    /\ batch.pc = "proc"
    /\ batch.items = 0
    /\ batch' = [batch EXCEPT !.pc = "wait",
                              !.queue = [k \in Sinks |-> [@[k] EXCEPT !.closed = TRUE]]]
    /\ NoTail

\* wg.Wait(): returns when the counter is zero
WaitReturnsCounter(b) == b.wg = 0

BatchWait ==
    /\ batch.pc = "wait"
    /\ WaitReturnsCounter(batch)
    /\ batch' = [batch EXCEPT !.pc = "finish"]
    /\ NoTail

\* finishEvent <- true
BatchFinish ==
    /\ batch.pc = "finish"
    /\ batch' = [batch EXCEPT !.pc = "done", !.finishEvent = @ + 1]
    /\ NoTail

\* the consumer of a sink takes a record from its queue; the consumer of a
\* configured sink reports it on its confirmation channel, where the reader
\* takes it
BatchConsume(k) ==
    /\ batch.consumer[k] = "recv"
    /\ batch.queue[k].len > 0
    /\ batch.dryRun \/ batch.readers[k] = "range"
    /\ batch' = [batch EXCEPT !.queue[k].len = @ - 1,
                              !.confirm[k].read = IF batch.dryRun THEN @ ELSE @ + 1]
    /\ NoTail

\* the consumer finds its queue closed and drained and closes its
\* confirmation channel
BatchConsumeEnd(k) ==
    /\ batch.consumer[k] = "recv"
    /\ batch.queue[k].len = 0
    /\ batch.queue[k].closed
    /\ batch' = [batch EXCEPT !.consumer[k] = "done", !.confirm[k].closed = TRUE]
    /\ NoTail

\* the loop of a reader ends on the closed confirmation channel: wg.Add(1)
BatchReaderEnd(k) ==
    /\ batch.readers[k] = "range"
    /\ batch.confirm[k].closed
    /\ batch' = [batch EXCEPT !.readers[k] = "done", !.wg = @ + 1]
    /\ NoTail

InitBatch ==
    /\ rec = EmptyMap
    /\ hist = rec
    /\ last = NoCall
    /\ trace = <<>>
    /\ Initialised
    /\ logBuffer = NoBuffer
    /\ tp = NoProcessor
    /\ batch \in { runBatchAction(n, dryRun) : n \in 0..MaxItems, dryRun \in BOOLEAN }

DoBatchConsume == \E k \in Sinks : BatchConsume(k)

DoBatchConsumeEnd == \E k \in Sinks : BatchConsumeEnd(k)

DoBatchReaderEnd == \E k \in Sinks : BatchReaderEnd(k)

NextBatch ==
    \/ BatchProcItem
    \/ BatchClose
    \/ BatchWait
    \/ BatchFinish
    \/ DoBatchConsume
    \/ DoBatchConsumeEnd
    \/ DoBatchReaderEnd

SpecBatch == InitBatch /\ [][NextBatch]_vars

----------------------------------------------------------------------------
(* SpecFiles: the function returned by CreateLogFileProcFunc, called once  *)
(* for a source of some files with some destination channels, while its    *)
(* context may be cancelled at any moment.                                 *)

\* the function is called: the files were found, no file is parsed yet;
\* parsed: history, the files handed to the parser, in order; doneAtSelect:
\* history, the file after which the select found the context cancelled
LogFileProcFunc(numFiles, destChans) ==
    [pc |-> "loop", files |-> numFiles, i |-> 1, ctxDone |-> FALSE,
     closed |-> [c \in 1..destChans |-> 0], parsed |-> <<>>,
     evaluated |-> 0, reset |-> 0, doneAtSelect |-> 0]

\* the deferred function: close(ch) for every destination channel
Returned(b) ==
    [b EXCEPT !.pc = "returned", !.closed = [c \in DOMAIN b.closed |-> b.closed[c] + 1]]

\* ctx is cancelled
FilesCancel ==
    /\ batch.pc \in {"loop", "parse", "select"}
    /\ ~batch.ctxDone
    /\ batch' = [batch EXCEPT !.ctxDone = TRUE]
    /\ NoTail

\* the loop takes the next file: newParser and the call of p.Parse
FilesParse ==
    /\ batch.pc = "loop"
    /\ batch.i <= batch.files
    /\ batch' = [batch EXCEPT !.pc = "parse", !.parsed = Append(@, batch.i)]
    /\ NoTail

\* p.Parse returns
FilesParsed ==
    /\ batch.pc = "parse"
    /\ batch' = [batch EXCEPT !.pc = "select"]
    /\ NoTail

\* a select that takes its default branch also when ctx is cancelled
AfterSelectOn(done) == "loop"

\* select { case <-ctx.Done(): return; default: }
AfterSelect(done) == IF done THEN "returned" ELSE "loop"

FilesSelect ==
    /\ batch.pc = "select"
    /\ LET b == [batch EXCEPT !.doneAtSelect = IF batch.ctxDone THEN batch.i ELSE @]
       IN  batch' = IF AfterSelect(batch.ctxDone) = "returned"
                    THEN Returned(b)
                    ELSE [b EXCEPT !.pc = "loop", !.i = @ + 1]
    /\ NoTail

\* the loop is over: procAlarm.Evaluate(), procAlarm.Reset(), return
FilesEnd ==
    /\ batch.pc = "loop"
    /\ batch.i > batch.files
    /\ batch' = Returned([batch EXCEPT !.evaluated = @ + 1, !.reset = @ + 1])
    /\ NoTail

InitFiles ==
    /\ rec = EmptyMap
    /\ hist = rec
    /\ last = NoCall
    /\ trace = <<>>
    /\ Initialised
    /\ logBuffer = NoBuffer
    /\ tp = NoProcessor
    /\ batch \in { LogFileProcFunc(n, c) : n \in 0..MaxFiles, c \in 0..MaxChans }

NextFiles ==
    \/ FilesCancel
    \/ FilesParse
    \/ FilesParsed
    \/ FilesSelect
    \/ FilesEnd

SpecFiles == InitFiles /\ [][NextFiles]_vars

----------------------------------------------------------------------------
(* SpecParse: the tokenizer of access log lines and ParseLine. A line is   *)
(* the list of the items strings.Split(s, " ") yields; an item is a list   *)
(* of characters, of which only the quote characters are told apart: "q"   *)
(* is the double quote, "o" and "c" are [ and ], "a" is any other          *)
(* character, and "s" is the space strings.Join puts between items.        *)

\* len(items) of tokenize
NumTokens == 10

\* the items a line is made of
Words ==
    {<<>>, <<"a">>, <<"q">>, <<"q", "a">>, <<"a", "q">>, <<"q", "a", "q">>,
     <<"o", "a">>, <<"a", "c">>}

\* lines of up to MaxPlain unquoted items followed by up to MaxSuffix items
\* of any kind
Lines ==
    { [i \in 1..k |-> <<"a">>] \o suffix :
        k \in 0..MaxPlain, suffix \in SeqsUpTo(Words, MaxSuffix) }

testOpenQuot(c) ==
    CASE c = "q" -> "q"
      [] c = "o" -> "c"
      [] OTHER   -> "0"

isCloseQuot(start, c) == (start = "q" /\ c = "q") \/ (start = "o" /\ c = "c")

\* updateTokenAt as it would be if it appended the value when the index is
\* beyond the slots
updateTokenAtGrow(items, i, value) ==
    IF i < Len(items)
    THEN [items |-> [items EXCEPT ![i + 1] = value], err |-> FALSE]
    ELSE [items |-> Append(items, value), err |-> FALSE]

\* items[i] = value for the 0-based index i, or the error
updateTokenAt(items, i, value) ==
    IF i < Len(items)
    THEN [items |-> [items EXCEPT ![i + 1] = value], err |-> FALSE]
    ELSE [items |-> items, err |-> TRUE]

\* strings.Join(currQuoted, " ")
RECURSIVE Join(_)
Join(ss) ==
    IF ss = <<>> THEN <<>>
    ELSE IF Len(ss) = 1 THEN ss[1]
    ELSE ss[1] \o <<"s">> \o Join(Tail(ss))

\* the state of tokenize before its loop
NewTokenizer ==
    [items |-> [i \in 1..NumTokens |-> <<>>], currQuoted |-> <<>>,
     currQuotChar |-> "0", parsedPos |-> 0, err |-> FALSE]

\* one iteration of the loop of tokenize
TokenizeItem(t, item) ==
    LET n     == Len(item)
        first == item[1]
        lastc == item[n]
    IN  IF n = 0 THEN t
        ELSE IF t.currQuotChar = "0"
        THEN LET closeChar == testOpenQuot(first)
             IN  IF closeChar # "0" /\ lastc # closeChar
                 THEN [t EXCEPT !.currQuoted = Append(@, Tail(item)),
                                !.currQuotChar = first]
                 ELSE IF closeChar # "0"
                 THEN IF n > 1
                      THEN LET u == updateTokenAt(t.items, t.parsedPos, SubSeq(item, 2, n - 1))
                           IN  IF u.err THEN [t EXCEPT !.items = <<>>, !.err = TRUE]
                               ELSE [t EXCEPT !.items = u.items, !.parsedPos = @ + 1]
                      ELSE [t EXCEPT !.parsedPos = @ + 1]
                 ELSE IF t.parsedPos < Len(t.items)
                 THEN [t EXCEPT !.items[t.parsedPos + 1] = item, !.parsedPos = @ + 1]
                 ELSE t
        ELSE IF isCloseQuot(t.currQuotChar, lastc)
             THEN LET u == updateTokenAt(t.items, t.parsedPos,
                                         Join(Append(t.currQuoted, SubSeq(item, 1, n - 1))))
                  IN  IF u.err THEN [t EXCEPT !.items = <<>>, !.err = TRUE]
                      ELSE [t EXCEPT !.items = u.items, !.parsedPos = @ + 1,
                                     !.currQuotChar = "0", !.currQuoted = <<>>]
             ELSE IF ~isCloseQuot(t.currQuotChar, first)
                  THEN [t EXCEPT !.currQuoted = Append(@, item)]
                  ELSE t

RECURSIVE TokenizeFrom(_, _)
TokenizeFrom(t, s) ==
    IF s = <<>> \/ t.err THEN t
    ELSE TokenizeFrom(TokenizeItem(t, Head(s)), Tail(s))

tokenize(s) == TokenizeFrom(NewTokenizer, s)

\* whether ParseLine can read tokens[i] for the 0-based index i
InRange(tokens, i) == i < Len(tokens)

\* the indexes ParseLine reads
TokensRead == {0, 2, 3, 4, 7, 8, 9}

\* ParseLine of a line; urlErr: url.Parse or url.ParseQuery fails, which is
\* asked only for a request of three parts; procErr: getProcTime fails,
\* which it cannot for an empty token
ParseLine(s, urlErr, procErr) ==
    LET t == tokenize(s)
    IN  IF t.err
        THEN [ans |-> "nil", err |-> "LineParsingError", panic |-> FALSE, t |-> t]
        ELSE IF \E i \in TokensRead : ~InRange(t.items, i)
        THEN [ans |-> "nil", err |-> "none", panic |-> TRUE, t |-> t]
        ELSE IF Count(t.items[5], {"s"}) = 2 /\ urlErr
        THEN [ans |-> "nil", err |-> "LineParsingError", panic |-> FALSE, t |-> t]
        ELSE [ans |-> "record",
              err |-> IF procErr /\ t.items[10] # <<>> THEN "error" ELSE "none",
              panic |-> FALSE, t |-> t]

ParseLineCall(s, urlErr, procErr) ==
    /\ last.op = "line"
    /\ s = last.s
    /\ last' = [op |-> "ParseLine", s |-> s, ret |-> ParseLine(s, urlErr, procErr)]
    /\ UNCHANGED <<rec, hist, trace, proc>>

InitParse ==
    /\ rec = EmptyMap
    /\ hist = rec
    /\ last \in {[op |-> "line", s |-> s] : s \in Lines}
    /\ trace = <<>>
    /\ Initialised
    /\ logBuffer = NoBuffer
    /\ tp = NoProcessor
    /\ batch = NoBatch

NextParse ==
    /\ last.op = "line"
    /\ \E urlErr \in BOOLEAN, procErr \in BOOLEAN : ParseLineCall(last.s, urlErr, procErr)

SpecParse == InitParse /\ [][NextParse]_vars

----------------------------------------------------------------------------
(* Properties of the reconciliation (Spec) *)

IsUpdate == last.op \in {"UpdateFileInfo", "ResetFile"}

\* the entry of the path of the last request is what the reader had read
EntryUnchanged ==
    /\ Has(rec, last.path) = last.had
    /\ Get(rec, last.path) = last.curr

\* the number of the first reconciliation rule that applies, in the given order
RuleOf(curr, cand) ==
    IF cand.Inode # curr.Inode THEN 1
    ELSE IF ~curr.Written /\ curr.SeekStart >= cand.SeekStart THEN 2
    ELSE IF curr.Written /\ cand.SeekEnd >= curr.SeekEnd THEN 3
    ELSE IF ~cand.Written /\ (curr.Written \/ cand.SeekEnd < curr.SeekEnd) THEN 4
    ELSE 5

\* C1: after each processed request the entry of its path is the candidate when
\* one of the rules 1-4 applies to the value the reader read (the zero LogRange
\* for a path without entry) and the candidate, and is unchanged otherwise.
C1_FiveRules ==
    IsUpdate =>
        IF RuleOf(last.curr, last.cand) \in 1..4
        THEN last.accepted /\ Has(rec, last.path) /\ rec[last.path] = last.cand
        ELSE ~last.accepted /\ EntryUnchanged

\* a request was discarded by rule 5 and left a stored entry as it was
C1_Witness ==
    /\ IsUpdate
    /\ last.had
    /\ RuleOf(last.curr, last.cand) = 5
    /\ rec[last.path] = last.curr
    /\ rec[last.path] # last.cand

\* C5: a confirmed candidate processed a second time, right after it was
\* processed once, leaves the entry of its path as the first processing left it.
C5_ReplayIdempotent ==
    (IsUpdate /\ last.again /\ last.cand.Written) => EntryUnchanged

\* a confirmed candidate was accepted and then processed once more
C5_Witness ==
    /\ IsUpdate
    /\ last.again
    /\ last.cand.Written
    /\ last.accepted
    /\ rec[last.path] = last.cand

\* C6: after a ResetFile whose stat succeeded, the entry of the path is the
\* confirmed zero range with the identity the stat returned.
C6_ResetForcesZeroRange ==
    last.op = "ResetFile" =>
        /\ Has(rec, last.path)
        /\ rec[last.path] =
              [Inode |-> last.ret, SeekStart |-> 0, SeekEnd |-> 0, Written |-> TRUE]

\* C8 as claimed: a discarded candidate has the identity of the current entry, is
\* confirmed and ends before the end of a current entry that is confirmed.
C8_DiscardOnlyBehindConfirmed ==
    (IsUpdate /\ ~last.accepted) =>
        /\ last.cand.Inode = last.curr.Inode
        /\ last.cand.Written
        /\ last.curr.Written
        /\ last.cand.SeekEnd < last.curr.SeekEnd

\* C8 as amended: a discarded candidate has the identity of the current entry and
\* either both are confirmed and the candidate ends before the current entry, or
\* the current entry is unconfirmed, the candidate starts after the start of the
\* current entry and is confirmed or does not end before the current entry.
C8_DiscardCases ==
    (IsUpdate /\ ~last.accepted) =>
        /\ last.cand.Inode = last.curr.Inode
        /\ \/ /\ last.curr.Written
              /\ last.cand.Written
              /\ last.cand.SeekEnd < last.curr.SeekEnd
           \/ /\ ~last.curr.Written
              /\ last.cand.SeekStart > last.curr.SeekStart
              /\ (last.cand.Written \/ last.cand.SeekEnd >= last.curr.SeekEnd)

\* an unconfirmed candidate was discarded against an unconfirmed stored entry
C8_Witness ==
    /\ IsUpdate
    /\ ~last.accepted
    /\ last.had
    /\ ~last.curr.Written
    /\ ~last.cand.Written
    /\ rec[last.path] = last.curr

\* C9: a confirmed candidate of the same identity processed against a stored
\* confirmed entry does not decrease the SeekEnd of the entry.
C9_ConfirmedMovesForward ==
    ( /\ IsUpdate
      /\ last.had
      /\ last.curr.Written
      /\ last.cand.Written
      /\ last.cand.Inode = last.curr.Inode )
    => rec[last.path].SeekEnd >= last.curr.SeekEnd

\* a confirmed candidate ending before a confirmed entry of its identity was processed
C9_Witness ==
    /\ IsUpdate
    /\ last.had
    /\ last.curr.Written
    /\ last.cand.Written
    /\ last.cand.Inode = last.curr.Inode
    /\ last.cand.SeekEnd < last.curr.SeekEnd
    /\ rec[last.path] = last.curr

\* C10: GetData returns the value loaded or the candidate accepted last for the
\* path, returns the unknown LogRange exactly when there is none, and leaves
\* the map as it was.
C10_GetData ==
    last.op = "GetData" =>
        /\ last.ret = IF Has(hist, last.path) THEN hist[last.path] ELSE UnknownLogRange
        /\ (last.ret = UnknownLogRange) <=> ~Has(hist, last.path)
        /\ rec = last.before

\* GetData returned the unknown LogRange for one path while the other has an entry
C10_Witness ==
    /\ last.op = "GetData"
    /\ ~Has(hist, last.path)
    /\ last.ret = UnknownLogRange
    /\ rec # EmptyMap

\* C11: the first request processed for a path without entry is accepted and
\* creates the entry with the candidate, whatever the candidate is.
C11_FirstRequestCreates ==
    (IsUpdate /\ ~last.had) =>
        /\ last.accepted
        /\ Has(rec, last.path)
        /\ rec[last.path] = last.cand

----------------------------------------------------------------------------
(* Properties of request sequences (SpecTrace) *)

TraceCands == [k \in 1..Len(trace) |-> trace[k].cand]

ScenarioB(i) ==
    << [Inode |-> i, SeekStart |-> 0, SeekEnd |-> 100, Written |-> FALSE],
       [Inode |-> i, SeekStart |-> 0, SeekEnd |-> 50, Written |-> TRUE],
       [Inode |-> i, SeekStart |-> 0, SeekEnd |-> 100, Written |-> TRUE] >>

\* C4: on a path without entry, unconfirmed [0,100), confirmed [0,50) and
\* confirmed [0,100) of one identity, in this order, leave the confirmed [0,100).
C4_ScenarioB ==
    \A i \in Inodes :
        TraceCands = ScenarioB(i) =>
            /\ Has(rec, TracePath)
            /\ rec[TracePath] = ScenarioB(i)[3]

\* the three requests of the scenario were processed
C4_Witness ==
    \E i \in Inodes :
        /\ TraceCands = ScenarioB(i)
        /\ rec[TracePath] = ScenarioB(i)[3]

\* C7: once a candidate of a new identity replaced the entry of an older one, a
\* candidate of the older identity that arrives while the entry still carries
\* the new identity does not replace it.
C7_OldIdentityStaysInvalid ==
    \A j, k \in 1..Len(trace) :
        ( /\ j < k
          /\ trace[j].had
          /\ trace[j].accepted
          /\ trace[j].curr.Inode # trace[j].cand.Inode
          /\ trace[k].curr.Inode = trace[j].cand.Inode
          /\ trace[k].cand.Inode = trace[j].curr.Inode )
        => ~trace[k].accepted

----------------------------------------------------------------------------
(* Properties of the reports of one file (SpecTail) *)

\* C2: when the stored entry is confirmed and ends at E, every range ending
\* at or before E that was reported unconfirmed was also reported confirmed.
C2_NeverPastUnknown ==
    (Has(rec, TailPath) /\ rec[TailPath].Written) =>
        \A v \in TailReported(FALSE) :
            v.SeekEnd <= rec[TailPath].SeekEnd => Confirmed(v) \in TailReported(TRUE)

\* C3: when every reported range was also reported confirmed, the entry is
\* confirmed and ends at the greatest SeekEnd reported, whatever the order.
C3_OrderIndependent ==
    ( /\ trace # <<>>
      /\ \A v \in TailReported(FALSE) : Confirmed(v) \in TailReported(TRUE) )
    => /\ Has(rec, TailPath)
       /\ rec[TailPath].Written
       /\ rec[TailPath].SeekEnd = TailPos

----------------------------------------------------------------------------
(* Properties of Init (SpecStore) *)

\* Init has just returned
InitReturned == last.op = "Init"

\* Init has returned an error and has left the worklog as NewWorklog made it
LeftUninitialised ==
    /\ ~initialized
    /\ updRequests = "nil"
    /\ reader.pc = "none"
    /\ \A id \in SaverIds : savers[id].pc = "none"

\* C15: Init with a non-empty path whose file is found missing or of zero
\* length returns nil, the ledger is empty, the worklog is initialised and the
\* autosave and the request reader run.
C15_InitWithoutData ==
    (/\ InitReturned
     /\ storeFilePath # ""
     /\ last.err \notin {"stat", "read"}
     /\ ~last.file.exists \/ Len(last.file.data) = 0) =>
        /\ last.err = "none"
        /\ rec = EmptyMap
        /\ initialized
        /\ updRequests = "open"
        /\ savers["autosave"].pc # "none"
        /\ reader.pc = "recv"

C15_Witness ==
    /\ InitReturned
    /\ last.file = File(<<>>)
    /\ last.err = "none"
    /\ initialized

\* C16 as stated: Init returns an error only when the path is empty or the
\* file cannot be inspected or read, and then leaves the worklog uninitialised.
C16_ErrorOnlyForPath ==
    (InitReturned /\ last.err # "none") =>
        /\ last.err \in {"nopath", "stat", "read"}
        /\ LeftUninitialised

\* C16 amended: Init returns an error exactly when the path is empty, the file
\* cannot be inspected or read, or the file holds data that is no JSON
\* object; after an error the worklog is uninitialised and no task runs.
C16_InitErrors ==
    InitReturned =>
        /\ last.err = "nopath" <=> storeFilePath = ""
        /\ last.err = "parse" <=>
                /\ storeFilePath # ""
                /\ last.err \notin {"stat", "read"}
                /\ last.file.exists
                /\ Len(last.file.data) > 0
                /\ ~IsJSON(last.file.data)
        /\ last.err # "none" => LeftUninitialised
        /\ last.err = "none" => initialized /\ rec = Loaded(last.file)

C16_Witness ==
    /\ InitReturned
    /\ last.err = "parse"
    /\ last.file = File(<<Brace("{")>>)
    /\ ~initialized

----------------------------------------------------------------------------
(* Properties of save() (SpecStore) *)

\* save() has just returned and no other save() has started since
SaveReturned == last.op = "save" /\ Saving = {}

OneComplete(fs) == Complete(fs.primary) \/ Complete(fs.backup)

\* C18: no step of save() takes the two files from a state in which one of
\* them holds a complete serialisation to a state in which neither does.
C18_AlwaysOneComplete ==
    [][(Saving # {} /\ crashes' = crashes /\ OneComplete(files)) => OneComplete(files')]_vars

\* C19: when the process was killed inside a save() that had found a complete
\* store file, the Init of the next process returns nil and loads the map of
\* that file or the map that was being saved; and until the first save() after
\* the restart has returned, a file holds a complete serialisation if one did
\* at the restart.
C19_CrashRecovery ==
    /\ (/\ InitReturned
        /\ last.before.op = "Crash"
        /\ last.before.inSave
        /\ Complete(last.before.prev)) =>
            /\ last.err = "none"
            /\ rec \in {Unmarshal(last.before.prev.data), last.before.rec}
    /\ (crashes > 0 /\ main.pc = "ready" /\ main.hadGen /\ ~main.saved) =>
            OneComplete(files)

\* C20: when a save() started by the ticker has failed, goAutosave is back at
\* its select and the next tick saves again; the map is as it was and the
\* request reader and the senders are where they were.
C20_FailedAutosave ==
    (SaveReturned /\ last.why = "tick" /\ ~last.ok) =>
        /\ savers["autosave"].pc = "wait"
        /\ ENABLED AutosaveTick
        /\ rec = last.rec
        /\ reader.pc = last.reader
        /\ \A s \in Senders : senders[s].pc # "panic"

C20_Witness ==
    /\ SaveReturned
    /\ last.why = "tick"
    /\ ~last.ok
    /\ rec # EmptyMap
    /\ ~Complete(files.primary)
    /\ savers["autosave"].pc = "wait"

----------------------------------------------------------------------------
(* Properties of the goroutines (SpecLife) *)

\* C12: a call of UpdateFileInfo on an initialised worklog does not panic, and
\* while it waits at its send the request reader is there to receive.
C12_SendReturns ==
    \A s \in Senders :
        /\ senders[s].pc # "panic"
        /\ senders[s].pc = "send" => reader.pc \in {"recv", "proc"}

\* the map that the store file holds
Stored == Unmarshal(files.primary.data)

\* C13: at the return of Close the store file holds a complete serialisation
\* with the value of every path set by the requests whose call had returned
\* when Close was called.
C13_CloseSavesReturned ==
    [][(main.pc = "closeChan" /\ main'.pc = "closed") =>
          /\ Complete(files'.primary)
          /\ \A p \in DOMAIN main.atCall :
                /\ Has(Stored', p)
                /\ Stored'[p] = main.atCall[p]]_vars

\* C14: after the return of Close the map is the one it was at the return, it
\* has no entry for the empty path, and the store file holds no entry that
\* the map did not have at the return.
C14_NothingAfterClose ==
    main.pc = "closed" =>
        /\ rec = main.atReturn
        /\ ~Has(rec, "")
        /\ Complete(files.primary) => DOMAIN Stored \subseteq DOMAIN main.atReturn

----------------------------------------------------------------------------
(* Properties of the ledger as a whole *)

\* C23: a Reset that returns nil leaves an existing store file empty and a
\* missing one missing; the Init that follows it returns nil with an empty
\* map, so that no path has an entry.
C23_Reset ==
    /\ (last.op = "Reset" /\ last.err = "none") =>
            files.primary = IF last.file.exists /\ storeFilePath # ""
                            THEN File(<<>>) ELSE last.file
    /\ (/\ InitReturned
        /\ last.before.op = "Reset"
        /\ last.before.err = "none"
        /\ last.err \notin {"nopath", "stat", "read"}) =>
            /\ last.err = "none"
            /\ rec = EmptyMap
            /\ \A p \in Paths : ~Has(rec, p)

C23_Witness ==
    /\ InitReturned
    /\ last.err = "none"
    /\ last.before.op = "Reset"
    /\ Complete(last.before.file)
    /\ Unmarshal(last.before.file.data) # EmptyMap
    /\ files.primary = File(<<>>)
    /\ rec = EmptyMap

\* C21: when the context is cancelled, both goroutines have returned and
\* Close has returned, the store file holds the map as it is in memory and no
\* sender waits at its send.
C21_FinalSave ==
    (/\ ctxDone
     /\ reader.pc = "stopped"
     /\ savers["autosave"].pc = "stopped"
     /\ main.pc = "closed") =>
        /\ Complete(files.primary)
        /\ Stored = rec
        /\ \A s \in Senders : senders[s].pc # "send"

\* C22: no step removes a path from the map, and a step changes the entry of
\* no path other than the one the operation names.
C22_Frame ==
    [][\A p \in DOMAIN rec :
          /\ Has(rec', p)
          /\ p # last'.path => rec'[p] = rec[p]]_vars

C22_Witness ==
    /\ IsUpdate
    /\ last.accepted
    /\ last.had
    /\ last.curr # last.cand
    /\ \E p \in DOMAIN rec : p # last.path

\* C25: every entry of the map is the candidate accepted last among the
\* requests sent for its path (or the value loaded by Init): the map has no
\* entry that nobody sent.
C25_OnlySubmitted ==
    \A p \in DOMAIN rec :
        /\ Has(hist, p)
        /\ rec[p] = hist[p]

----------------------------------------------------------------------------
(* Properties of Preprocess (SpecBuf) *)

\* C28: Preprocess runs the analyzer exactly when the time of the record
\* minus the last check of its key is greater than the interval and the
\* buffer holds a record of the key; otherwise it returns the raw record
\* alone and neither evicts nor stamps.
C28_AnalysisTrigger ==
    [][last'.op = "Preprocess" =>
          LET r == last'.rec
          IN  /\ last'.analyzed <=>
                    /\ r.time - logBuffer.lastCheck[r.key] > logBuffer.interval
                    /\ Len(logBuffer.recs[r.key]) >= 1
              /\ ~last'.analyzed =>
                    /\ last'.ret = <<r>>
                    /\ ~last'.removed
                    /\ ~last'.confirmed]_vars

C28_Witness ==
    /\ last.op = "Preprocess"
    /\ ~last.analyzed
    /\ last.prevRun # ZeroTime
    /\ last.rec.time > last.prevRun
    /\ last.ret = <<last.rec>>

\* C29: when the analyzer has returned a cluster, Preprocess returns the
\* representatives, the last check of the key is the time of the record and
\* the key retains none of the analysed records; when it has returned none,
\* Preprocess returns the raw record and the buffer is the one before with
\* the raw record added by OnEntry.
C29_AnalysisOutcome ==
    [][(last'.op = "Preprocess" /\ last'.analyzed) =>
          LET r == last'.rec
              kept == logBuffer'.recs[r.key]
          IN  IF Len(last'.clustered) > 0
              THEN /\ last'.ret = last'.clustered
                   /\ last'.removed /\ last'.confirmed
                   /\ logBuffer'.lastCheck[r.key] = r.time
                   /\ \A i \in DOMAIN kept :
                         \E j \in DOMAIN last'.clustered : kept[i] = last'.clustered[j]
              ELSE /\ last'.ret = <<r>>
                   /\ ~last'.removed /\ ~last'.confirmed
                   /\ logBuffer' = AddRecord(logBuffer, r)]_vars

C29_Witness ==
    /\ last.op = "Preprocess"
    /\ last.analyzed
    /\ Len(last.clustered) = 2
    /\ last.ret = last.clustered
    /\ logBuffer.lastCheck[last.rec.key] = last.rec.time
    /\ last.prevRun # ZeroTime

\* C30: when the analyzer runs for a key for which it has run before, the
\* record is more than one interval later than the record of that run.
C30_NotPerRecord ==
    (last.op = "Preprocess" /\ last.analyzed /\ last.prevRun # ZeroTime) =>
        last.rec.time - last.prevRun > logBuffer.interval

----------------------------------------------------------------------------
(* Properties of one check of a file (SpecProc) *)

Called(calls) == { calls[i] : i \in DOMAIN calls }

\* C26: when ParseLine fails or the parsed record is not processable,
\* OnEntry sends exactly one Ignored message with the processor's file path
\* and the range of the line, enqueues no output record, calls none of
\* Preprocess, AddRecord, Transform and the health checker, and returns, the
\* processor being ready for the following line.
C26_IgnoredEntry ==
    [][(tp'.next = tp.next + 1 /\ last'.item \in {"unparsable", "unprocessable"}) =>
          /\ tp'.ignored = tp.ignored + 1
          /\ tp'.fwdIgnored = [pc |-> "send",
                               msg |-> [msg |-> "ignored", FilePath |-> tp.filePath,
                                        Position |-> LinePosition(tp.next)]]
          /\ tp'.Elastic = tp.Elastic
          /\ tp'.enqueued = tp.enqueued
          /\ Called(last'.calls) \cap {"Preprocess", "AddRecord", "Transform", "Ping"} = {}
          /\ tp'.pc = "entries"]_vars

\* an unprocessable line was ignored and the line after it was put out
C26_Witness ==
    /\ tp.next = 3
    /\ tp.lines[1] = "unprocessable"
    /\ tp.lines[2] = "ok"
    /\ tp.ignored = 1
    /\ tp.enqueued = 1

\* C27: the dry-run consumer emits no confirmation, closes its confirmation
\* channel at most once, and only after its input was closed and every item
\* put on it was read, whether or not the JSON conversion of an item failed.
C27_DryRunConsumer ==
    tp.dryRun =>
        /\ tp.emitted = 0
        /\ tp.fwdSink.pc # "send"
        /\ tp.seen.written = 0
        /\ tp.closes <= 1
        /\ tp.confirmChan.closed =>
              /\ tp.closes = 1
              /\ tp.Elastic.closed
              /\ tp.Elastic.buf = <<>>
              /\ tp.read = tp.enqueued

C27_Witness ==
    /\ tp.dryRun
    /\ tp.confirmChan.closed
    /\ tp.read = 2
    /\ last.op = "RunWriteConsumer"
    /\ last.err

\* C24: after a check of a file whose lines either fail to parse or are put
\* out, with every confirmation reconciled, as many output records were
\* enqueued as lines parsed, as many ignored confirmations arrived as lines
\* failed to parse, and the entry of the file is confirmed and ends at the
\* length of the file; with the configured sink and with the dry-run sink.
C24_ScenarioA ==
    (CheckDone /\ \A i \in DOMAIN tp.lines : tp.lines[i] \in {"unparsable", "ok"}) =>
        /\ tp.enqueued = Count(tp.lines, {"ok"})
        /\ tp.seen.ignored = Count(tp.lines, {"unparsable"})
        /\ Has(rec, tp.filePath)
        /\ rec[tp.filePath].Written
        /\ rec[tp.filePath].SeekEnd = Len(tp.lines)

----------------------------------------------------------------------------
(* Properties of the tasks of the worklog (SpecLife) *)

\* C31: after Init the map is written only by the request reader, and only
\* as the outcome of the one request it holds: whatever UpdateFileInfo,
\* save, Close or the cancellation do between its receive and its write
\* leaves the map as it is.
C31_SingleWriter ==
    [][rec' # rec =>
          /\ reader.pc = "proc"
          /\ reader'.pc = "recv"
          /\ rec' = Reconciled(rec, reader.req)]_vars

\* the reader has written the map while another request was waiting to be
\* sent and a save was under way
C31_Witness ==
    /\ last.op = "reconcile"
    /\ rec # EmptyMap
    /\ \E s \in Senders : senders[s].pc = "send"
    /\ \E id \in SaverIds : savers[id].pc \in SaveSteps

\* every save() that was entered has returned
SavesFinished == \A id \in SaverIds : savers[id].pc \notin SaveSteps

\* C36: with the save of the ticker or of the cancellation and the save of
\* Close running at the same time and no file operation failing, no step
\* takes the two files from a state in which one of them holds a complete
\* serialisation to a state in which neither does, and when every save()
\* has returned the store file holds a complete serialisation.
C36_ConcurrentSaves ==
    [][/\ OneComplete(files) => OneComplete(files')
       /\ (main'.saved /\ SavesFinished') => Complete(files'.primary)]_vars

----------------------------------------------------------------------------
(* Further properties of Preprocess (SpecBuf) *)

\* C37: Preprocess never returns an empty list, and the record passed to it
\* is either among the records it returns or among the buffered records
\* that were analysed.
C37_NoRecordDropped ==
    [][last'.op = "Preprocess" =>
          LET r == last'.rec
              items == logBuffer.recs[r.key]
          IN  /\ last'.ret # <<>>
              /\ \/ \E i \in DOMAIN last'.ret : last'.ret[i] = r
                 \/ last'.analyzed /\ \E i \in DOMAIN items : items[i] = r]_vars

----------------------------------------------------------------------------
(* Properties of the messages of one check (SpecProc, SpecAwait) *)

\* C32: for no line does OnEntry send both an Ignored message and an output
\* record, whatever Preprocess returns and wherever Transform fails.
C32_IgnoredOrEnqueued ==
    \A i \in DOMAIN tp.emits : tp.emits[i].ignored = 0 \/ tp.emits[i].enqueued = 0

\* C33: for every line for which OnEntry has returned, at least one message
\* with the range of the line was sent, an Ignored message or an output
\* record.
C33_EveryLineReported ==
    \A i \in DOMAIN tp.emits :
        i < tp.next => tp.emits[i].ignored + tp.emits[i].enqueued >= 1

\* C34: itemConfirm is closed at most once, and only when both forwarders
\* have finished, the channel of the sink's confirmations and the Ignored
\* channel are closed and every message of both was forwarded once; nothing
\* is sent on it after it was closed.
C34_MergedClosedOnce ==
    [][/\ tp'.itemCloses <= 1
       /\ tp'.itemConfirm.closed =>
             /\ tp'.itemCloses = 1
             /\ tp'.fwdSink.pc = "done"
             /\ tp'.fwdIgnored.pc = "done"
             /\ tp'.confirmChan.closed
             /\ tp'.Ignored.closed
             /\ tp'.forwarded = tp'.emitted + tp'.ignored
       /\ tp.itemConfirm.closed => tp'.forwarded = tp.forwarded]_vars

\* itemConfirm was closed after a confirmation of the sink and an Ignored
\* message were forwarded
C34_Witness ==
    /\ tp.itemConfirm.closed
    /\ tp.emitted = 1
    /\ tp.ignored = 1
    /\ tp.forwarded = 2

\* C35: with the confirmations awaited after the lines were dispatched, the
\* check never comes to a state, before itemConfirm is closed, in which no
\* task can take a step: a state in which OnEntry waits on a send for ever or
\* itemConfirm is never closed.
C35_NeverStuck == tp.itemConfirm.closed \/ ENABLED NextAwait

----------------------------------------------------------------------------
(* Properties of batch runs (SpecBatch, SpecFiles) *)

\* C38: wg.Wait() has returned, and the finish event is sent, only when the
\* confirmation channels of both sinks are closed and both readers have
\* left their loops.
C38_FinishAfterReaders ==
    batch.pc \in {"finish", "done"} =>
        \A k \in Sinks : batch.confirm[k].closed /\ batch.readers[k] = "done"

\* C39: every destination channel is closed exactly once when the function
\* has returned and not before; the files are handed to the parser one
\* after another in their order; when the select after a file has found the
\* context cancelled no later file is handed to the parser and the alarm is
\* neither evaluated nor reset; the alarm is evaluated and reset once, and
\* only when every file was parsed.
C39_ProcFunc ==
    batch.pc \in {"loop", "parse", "select", "returned"} =>
        /\ \A c \in DOMAIN batch.closed :
              batch.closed[c] = IF batch.pc = "returned" THEN 1 ELSE 0
        /\ batch.parsed = [j \in 1..Len(batch.parsed) |-> j]
        /\ batch.pc = "parse" => Len(batch.parsed) = batch.i
        /\ batch.doneAtSelect > 0 =>
              /\ batch.pc = "returned"
              /\ Len(batch.parsed) = batch.doneAtSelect
              /\ batch.evaluated = 0
              /\ batch.reset = 0
        /\ batch.evaluated + batch.reset > 0 =>
              /\ batch.evaluated = 1
              /\ batch.reset = 1
              /\ Len(batch.parsed) = batch.files
              /\ batch.doneAtSelect = 0

\* the function has returned after the first of three files because the
\* context was cancelled, and has closed its two channels
C39_Witness ==
    /\ batch.pc = "returned"
    /\ batch.files = 3
    /\ batch.doneAtSelect = 1
    /\ batch.parsed = <<1>>
    /\ DOMAIN batch.closed = {1, 2}
    /\ \A c \in DOMAIN batch.closed : batch.closed[c] = 1

----------------------------------------------------------------------------
(* Properties of the access log parser (SpecParse) *)

\* C40: for every line the tokenizer returns an error or exactly 10 tokens,
\* no index is out of range in tokenize or ParseLine, and when the tokenizer
\* fails ParseLine returns nil and a LineParsingError.
C40_TenTokens ==
    last.op = "ParseLine" =>
        /\ last.ret.t.err \/ Len(last.ret.t.items) = NumTokens
        /\ ~last.ret.panic
        /\ last.ret.t.err => last.ret.ans = "nil" /\ last.ret.err = "LineParsingError"

\* a line whose eleventh token is a quoted one was refused
C40_Witness ==
    /\ last.op = "ParseLine"
    /\ last.ret.t.err
    /\ last.ret.t.parsedPos = NumTokens
    /\ last.ret.ans = "nil"

====
